---- MODULE Spec2Model ----
(***************************************************************************)
(* Model of api/index.py: the Telegram ingestion handler, the real-time    *)
(* link generator and the Flask routes that use them.                      *)
(*                                                                         *)
(* Every HTTP request is served by a request thread.  A thread is idle or  *)
(* at one of the external calls of its handler (TMDB, MongoDB, the bot,    *)
(* the Pyrogram client); one action is the code between two such calls.    *)
(* An optional value (Python's None / a missing key) is a set with at most *)
(* one element; a string that the code inspects is a sequence of           *)
(* one-character strings.                                                  *)
(***************************************************************************)
EXTENDS Integers, Sequences, FiniteSets, TLC

VARIABLES movies, categories, requests_collection, settings, last_oid,
          is_initialized, startCalls, scratch, nextCopy,
          pc, loc, nreq, environ, boot

vars == <<movies, categories, requests_collection, settings, last_oid,
          is_initialized, startCalls, scratch, nextCopy, pc, loc, nreq, environ, boot>>

\* the collections, and the last ObjectId generated for a document
store == <<movies, categories, requests_collection, settings, last_oid>>

pyro == <<is_initialized, startCalls, scratch, nextCopy>>

process == <<environ, boot>>

(* ------------------------------ bounds -------------------------------- *)

\* number of webhook deliveries in one run
MaxPosts == 2

\* number of /stream and /download requests in one run
MaxResolves == 3

\* length of the name part of the filenames given to parse_filename
MaxNameLen == 3

\* size of the catalogues that are listed page by page
MaxItems == 41

\* number of requests in one run of the admin panel
MaxOps == 3

\* length of the result lists given to search_tmdb_for_bot
MaxResults == 3

\* message ids of the channel posts delivered to the webhook
MaxMsgId == 2

\* the request threads of the web server
Threads == {"t1", "t2"}

(* ---------------------------- configuration --------------------------- *)

TARGET_CHANNEL_ID == 7

ITEMS_PER_PAGE == 20

\* Optional values
None == {}

Some(x) == {x}

The(o) == CHOOSE x \in o : TRUE

(* ------------------------------ strings ------------------------------- *)

Digit == {"0", "1", "2", "3", "4", "5", "6", "7", "8", "9"}

Whitespace == {" ", "\t", "\n"}

\* str.strip(): drop leading and trailing whitespace
RECURSIVE lstrip(_)
lstrip(s) == IF s # <<>> /\ Head(s) \in Whitespace THEN lstrip(Tail(s)) ELSE s

RECURSIVE rstrip(_)
rstrip(s) ==
    IF s # <<>> /\ s[Len(s)] \in Whitespace
    THEN rstrip(SubSeq(s, 1, Len(s) - 1))
    ELSE s

strip(s) == rstrip(lstrip(s))

\* str.replace(old, new) for one-character old and new
replace(s, old, new) == [k \in 1..Len(s) |-> IF s[k] = old THEN new ELSE s[k]]

\* the pattern without its closing parenthesis: \((\d{4})
YearAt_unclosed(f, j) ==
    /\ j + 4 <= Len(f)
    /\ f[j] = "("
    /\ \A k \in (j + 1)..(j + 4) : f[k] \in Digit

\* \((\d{4})\) matches at position j
YearAt(f, j) ==
    /\ j + 5 <= Len(f)
    /\ f[j] = "("
    /\ \A k \in (j + 1)..(j + 4) : f[k] \in Digit
    /\ f[j + 5] = ")"

\* ^(.*?)\s*\((\d{4})\) matches with group 1 = f[1..i] and the year group at j
MatchAt(f, i, j) ==
    /\ \A k \in 1..i : f[k] # "\n"
    /\ j \in (i + 1)..Len(f)
    /\ \A k \in (i + 1)..(j - 1) : f[k] \in Whitespace
    /\ YearAt(f, j)

Matches(f, i) == \E j \in 1..Len(f) : MatchAt(f, i, j)

NoMatch == [title |-> None, year |-> None]

\* parse_filename: the lazy group 1 is the shortest prefix that lets the rest match
parse_filename(filename) ==
    IF \E i \in 0..Len(filename) : Matches(filename, i)
    THEN LET i == CHOOSE i \in 0..Len(filename) :
                      /\ Matches(filename, i)
                      /\ \A h \in 0..(i - 1) : ~Matches(filename, h)
             j == CHOOSE j \in 1..Len(filename) : MatchAt(filename, i, j)
             title == replace(replace(strip(SubSeq(filename, 1, i)), ".", " "), "_", " ")
             year == SubSeq(filename, j + 1, j + 4)
         IN  [title |-> Some(title), year |-> Some(year)]
    ELSE NoMatch

\* Python truthiness of an optional string
Truthy(o) == o # None /\ The(o) # <<>>

\* the string of a sequence of characters
RECURSIVE join(_)
join(s) == IF s = <<>> THEN "" ELSE Head(s) \o join(Tail(s))


(* --------------------------- TMDB lookup ------------------------------ *)

\* a or b, on optional values that are never the empty string
Or(a, b) == IF a # None THEN a ELSE b

\* the details documents TMDB serves, by id
TmdbData(id) ==
    IF id = 1 THEN [title |-> Some("Inception"), name |-> None]
    ELSE [title |-> None, name |-> Some("Dark")]

\* the search results TMDB may answer with
TmdbResults ==
    { <<>>,
      << [media_type |-> "person", id |-> 3] >>,
      << [media_type |-> "person", id |-> 3], [media_type |-> "movie", id |-> 1] >>,
      << [media_type |-> "tv", id |-> 2], [media_type |-> "movie", id |-> 1] >> }

\* the details request answers a document, answers an error status with a
\* JSON body that has no title (no raise_for_status follows it), or raises
DetailOutcomes == {"ok", "error_status", "raised"}

\* the body of an error answer of TMDB
TmdbError == [title |-> None, name |-> None]

\* what the two HTTP requests of one lookup do
TmdbEnv == [search_ok : BOOLEAN, results : TmdbResults, detail : DetailOutcomes]

Qualifying(results) == {k \in 1..Len(results) : results[k].media_type \in {"movie", "tv"}}

\* search_tmdb_for_bot: first movie/tv result, then its details; None on any failure
search_tmdb_for_bot(env) ==
    IF ~env.search_ok THEN None
    ELSE IF Qualifying(env.results) = {} THEN None
    ELSE LET k == CHOOSE k \in Qualifying(env.results) :
                      \A h \in Qualifying(env.results) : k <= h
             first_result == env.results[k]
             data == IF env.detail = "ok" THEN TmdbData(first_result.id) ELSE TmdbError
         IN  IF env.detail = "raised" THEN None
             ELSE Some([title |-> Or(data.title, data.name),
                        type |-> IF first_result.media_type = "tv" THEN "series" ELSE "movie"])

(* --------------------------- channel posts ---------------------------- *)

FN_Inception == <<"I", "n", " ", "(", "2", "0", "1", "0", ")", ".", "m", "k", "v">>

FN_Matrix == <<"T", ".", "M", ".", "(", "1", "9", "9", "9", ")", ".", "m", "k", "v">>

FN_Random == <<"r", "n", "d", ".", "m", "k", "v">>

FN_NoTitle == <<" ", "(", "2", "0", "1", "0", ")", ".", "m", "k", "v">>

FileNames == {FN_Inception, FN_Random, FN_NoTitle, <<>>}

NamedFile(f) == [file_name |-> Some(f)]

UnnamedFile == [file_name |-> None]

\* (video, document) of a message
Video(f) == [video |-> Some(NamedFile(f)), document |-> None]

Attachments ==
    { [video |-> None, document |-> None],
      [video |-> Some(UnnamedFile), document |-> None],
      [video |-> Some(UnnamedFile), document |-> Some(NamedFile(FN_Inception))],
      [video |-> None, document |-> Some(NamedFile(FN_Matrix))] }
    \cup { Video(f) : f \in FileNames }

Message(c, m, a) ==
    [chat_id |-> c, message_id |-> m, video |-> a.video, document |-> a.document]

\* posts of the source channel, and one post of another chat
Messages ==
    { Message(TARGET_CHANNEL_ID, 1, a) : a \in Attachments }
    \cup { Message(TARGET_CHANNEL_ID, m, Video(f)) :
             m \in 1..MaxMsgId, f \in {FN_Inception, FN_Random} }
    \cup { Message(TARGET_CHANNEL_ID + 1, 1, Video(FN_Inception)) }

\* an update: channel_post is a message or None
Updates == { [channel_post |-> None] } \cup { [channel_post |-> Some(m)] : m \in Messages }

\* message.video or message.document
FileOf(message) == Or(message.video, message.document)

\* the guards without the comparison with TARGET_CHANNEL_ID
Accepted_any_chat(update) ==
    /\ update.channel_post # None
    /\ FileOf(The(update.channel_post)) # None
    /\ Truthy(The(FileOf(The(update.channel_post))).file_name)

\* the guards of handle_new_post before parse_filename
Accepted(update) ==
    /\ update.channel_post # None
    /\ The(update.channel_post).chat_id = TARGET_CHANNEL_ID
    /\ FileOf(The(update.channel_post)) # None
    /\ Truthy(The(FileOf(The(update.channel_post))).file_name)

FileName(update) == The(The(FileOf(The(update.channel_post))).file_name)

(* ------------------------------ state --------------------------------- *)

\* the locals and the history of the request a thread serves (or served last)
Blank ==
    [ kind |-> "none", update |-> None, parsed |-> NoMatch, details |-> None,
      lookups |-> 0, inserts |-> 0, inserted |-> None, sent |-> <<>>,
      movie_id |-> 0, ref |-> None, trace |-> <<>>, copy |-> None, link |-> None,
      query |-> None, page |-> 0, pages |-> <<>>, total_pages |-> 0,
      endpoint |-> "", auth |-> None, headers |-> {}, ran |-> FALSE,
      update_data |-> None, tmdb |-> None,
      method |-> "", form_action |-> "", form |-> None, selected_ids |-> {},
      arg |-> "", name |-> None, counts |-> <<>>,
      status |-> 0, raised |-> FALSE ]

default_categories ==
    <<"Coming Soon", "Bengali", "Hindi", "English", "18+ Adult Zone", "Trending">>

\* the documents insert_many writes; they are older than every ObjectId
\* generated while the process serves
DefaultCategories ==
    [k \in 1..Len(default_categories) |-> [id |-> 0 - k, name |-> default_categories[k]]]

\* create_index("name", unique=True) accepts the collection
UniqueNames(docs) ==
    \A i, j \in 1..Len(docs) : docs[i].name = docs[j].name => i = j

\* the environment variables the module reads and has no default for
ConfigVars ==
    {"MONGO_URI", "TMDB_API_KEY", "WEBSITE_URL", "BOT_TOKEN", "API_ID", "API_HASH",
     "PYROGRAM_SESSION"}

\* required_vars with WEBSITE_URL left out of the list
required_vars_without_url ==
    {"MONGO_URI", "TMDB_API_KEY", "API_ID", "API_HASH", "BOT_TOKEN", "PYROGRAM_SESSION"}

\* the environment variables the module refuses to start without
required_vars ==
    {"MONGO_URI", "TMDB_API_KEY", "API_ID", "API_HASH", "BOT_TOKEN", "PYROGRAM_SESSION",
     "WEBSITE_URL"}

\* an environment: the required variables that are set, what TARGET_CHANNEL_ID
\* holds, and whether the database answers
Envs ==
    [ present : SUBSET ConfigVars,
      target : {"absent", "invalid", "valid"},
      mongo_ok : BOOLEAN ]

\* the environment of a working deployment
DeployedEnv == [present |-> ConfigVars, target |-> "valid", mongo_ok |-> TRUE]

\* the process has started: the collections hold what the database holds
StartWith(catalogue, locals) ==
    /\ environ = DeployedEnv
    /\ boot = "serving"
    /\ movies = catalogue
    /\ categories = DefaultCategories
    /\ requests_collection = <<>>
    /\ settings = None
    /\ last_oid = Len(movies)
    /\ is_initialized = FALSE
    /\ startCalls = 0
    /\ scratch = {}
    /\ nextCopy = 1
    /\ pc = [t \in Threads |-> "idle"]
    /\ loc = locals
    /\ nreq = 0

Start(catalogue) == StartWith(catalogue, [t \in Threads |-> Blank])

Init == Start(<<>>)

\* a catalogue of an earlier run: one ingested post and one manual entry
SeedCatalogue ==
    << [ id |-> 1, title |-> Some("Inception"), type |-> "movie",
         telegram_ref |-> Some([chat_id |-> TARGET_CHANNEL_ID, message_id |-> 1]),
         manual_links |-> None, categories |-> {} ],
       [ id |-> 2, title |-> Some("Dark"), type |-> "series",
         telegram_ref |-> None,
         manual_links |-> Some(<< [name |-> "480p", url |-> "u"] >>),
         categories |-> {"Hindi"} ] >>

InitSeeded == Start(SeedCatalogue)

\* ObjectIds grow with insertion and are never given twice
NextId == last_oid + 1

\* a thread takes a new request
Begin(t, budget) ==
    /\ boot = "serving"
    /\ pc[t] = "idle"
    /\ nreq < budget
    /\ nreq' = nreq + 1

\* the handler returns a response
Return(t, l, status) ==
    /\ pc' = [pc EXCEPT ![t] = "idle"]
    /\ loc' = [loc EXCEPT ![t] = [l EXCEPT !.status = status]]
    /\ UNCHANGED process

\* an exception leaves the handler: Flask answers 500
Raise(t, l) ==
    /\ pc' = [pc EXCEPT ![t] = "idle"]
    /\ loc' = [loc EXCEPT ![t] = [l EXCEPT !.status = 500, !.raised = TRUE]]
    /\ UNCHANGED process

Goto(t, l, label) ==
    /\ pc' = [pc EXCEPT ![t] = label]
    /\ loc' = [loc EXCEPT ![t] = l]
    /\ UNCHANGED process

(* ---------------------- webhook and handle_new_post ------------------- *)

Notification(update, kind, ref) ==
    [ chat_id |-> The(update.channel_post).chat_id,
      reply_to_message_id |-> The(update.channel_post).message_id,
      kind |-> kind, post |-> ref ]

\* bot.send_message is called with this notification
Sent(l, kind, ref) ==
    [l EXCEPT !.sent = Append(l.sent, Notification(The(l.update), kind, ref))]

\* webhook_handler up to the first external call of handle_new_post
webhook_handler(t, is_json, update) ==
    /\ Begin(t, MaxPosts)
    /\ LET l == [Blank EXCEPT !.kind = "webhook", !.update = Some(update)]
       IN  IF ~is_json THEN Return(t, [Blank EXCEPT !.kind = "webhook"], 200)
           ELSE IF ~Accepted(update) THEN Return(t, l, 200)
           ELSE LET p == parse_filename(FileName(update))
                IN  IF ~Truthy(p.title)
                    THEN Goto(t, [l EXCEPT !.parsed = p], "hp_format_error")
                    ELSE Goto(t, [l EXCEPT !.parsed = p], "hp_lookup")
    /\ UNCHANGED <<store, pyro>>

\* hp_format_error without the return: the handler goes on to the lookup
hp_format_error_no_return(t, ok) ==
    /\ pc[t] = "hp_format_error"
    /\ LET l == Sent(loc[t], "format_error", None)
       IN  IF ok THEN Goto(t, l, "hp_lookup") ELSE Raise(t, l)
    /\ UNCHANGED <<store, pyro, nreq>>

\* the format-error send_message; an exception of the bot is not caught
hp_format_error(t, ok) ==
    /\ pc[t] = "hp_format_error"
    /\ LET l == Sent(loc[t], "format_error", None)
       IN  IF ok THEN Return(t, l, 200) ELSE Raise(t, l)
    /\ UNCHANGED <<store, pyro, nreq>>

\* search_tmdb_for_bot(title, year)
hp_lookup(t, env) ==
    /\ pc[t] = "hp_lookup"
    /\ LET d == search_tmdb_for_bot(env)
           l == [loc[t] EXCEPT !.details = d, !.lookups = @ + 1]
       IN  IF d = None THEN Goto(t, l, "hp_not_found") ELSE Goto(t, l, "hp_insert")
    /\ UNCHANGED <<store, pyro, nreq>>

\* hp_not_found that looks the title up again instead of stopping
hp_not_found_retry(t, ok) ==
    /\ pc[t] = "hp_not_found"
    /\ LET l == Sent(loc[t], "not_found", None)
       IN  IF ok /\ loc[t].lookups < 2 THEN Goto(t, l, "hp_lookup")
           ELSE IF ok THEN Return(t, l, 200) ELSE Raise(t, l)
    /\ UNCHANGED <<store, pyro, nreq>>

\* the not-found send_message
hp_not_found(t, ok) ==
    /\ pc[t] = "hp_not_found"
    /\ LET l == Sent(loc[t], "not_found", None)
       IN  IF ok THEN Return(t, l, 200) ELSE Raise(t, l)
    /\ UNCHANGED <<store, pyro, nreq>>

\* movie_data built like the admin form's, with a manual_links list
movie_data_with_links(l, id) ==
    [ id |-> id, title |-> The(l.details).title, type |-> The(l.details).type,
      telegram_ref |-> Some([chat_id |-> The(The(l.update).channel_post).chat_id,
                             message_id |-> The(The(l.update).channel_post).message_id]),
      manual_links |-> Some(<<>>), categories |-> {} ]

\* movie_data of handle_new_post
movie_data(l, id) ==
    [ id |-> id, title |-> The(l.details).title, type |-> The(l.details).type,
      telegram_ref |-> Some([chat_id |-> The(The(l.update).channel_post).chat_id,
                             message_id |-> The(The(l.update).channel_post).message_id]),
      manual_links |-> None, categories |-> {} ]

\* hp_insert that skips the insert when the catalogue has the title
hp_insert_dedup(t, ok) ==
    /\ pc[t] = "hp_insert"
    /\ IF ok /\ \A k \in 1..Len(movies) : movies[k].title # The(loc[t].details).title
       THEN /\ movies' = Append(movies, movie_data(loc[t], NextId))
            /\ last_oid' = NextId
            /\ Goto(t, [loc[t] EXCEPT !.inserts = @ + 1, !.inserted = Some(NextId)], "hp_success")
       ELSE IF ok
       THEN /\ UNCHANGED <<movies, last_oid>>
            /\ Goto(t, loc[t], "hp_success")
       ELSE /\ UNCHANGED <<movies, last_oid>>
            /\ Goto(t, [loc[t] EXCEPT !.inserts = @ + 1], "hp_db_error")
    /\ UNCHANGED <<categories, requests_collection, settings, pyro, nreq>>

\* movies.insert_one(movie_data) inside the try block
hp_insert(t, ok) ==
    /\ pc[t] = "hp_insert"
    /\ IF ok
       THEN /\ movies' = Append(movies, movie_data(loc[t], NextId))
            /\ last_oid' = NextId
            /\ Goto(t, [loc[t] EXCEPT !.inserts = @ + 1, !.inserted = Some(NextId)], "hp_success")
       ELSE /\ UNCHANGED <<movies, last_oid>>
            /\ Goto(t, [loc[t] EXCEPT !.inserts = @ + 1], "hp_db_error")
    /\ UNCHANGED <<categories, requests_collection, settings, pyro, nreq>>

\* the confirmation send_message, still inside the try block
hp_success(t, ok) ==
    /\ pc[t] = "hp_success"
    /\ LET l == Sent(loc[t], "success", loc[t].inserted)
       IN  IF ok THEN Return(t, l, 200) ELSE Goto(t, l, "hp_db_error")
    /\ UNCHANGED <<store, pyro, nreq>>

\* the except block: the database-error send_message
hp_db_error(t, ok) ==
    /\ pc[t] = "hp_db_error"
    /\ LET l == Sent(loc[t], "db_error", None)
       IN  IF ok THEN Return(t, l, 200) ELSE Raise(t, l)
    /\ UNCHANGED <<store, pyro, nreq>>

handle_new_post(t) ==
    \/ \E ok \in BOOLEAN : hp_format_error(t, ok)
    \/ \E env \in TmdbEnv : hp_lookup(t, env)
    \/ \E ok \in BOOLEAN : hp_not_found(t, ok)
    \/ \E ok \in BOOLEAN : hp_insert(t, ok)
    \/ \E ok \in BOOLEAN : hp_success(t, ok)
    \/ \E ok \in BOOLEAN : hp_db_error(t, ok)

Webhook(t) == \E is_json \in BOOLEAN, update \in Updates : webhook_handler(t, is_json, update)

(* ------------------- /stream, /download, link generation -------------- *)

\* the <movie_id> of a URL: a well-formed ObjectId or any other string
PathIds ==
    { [wellformed |-> FALSE, oid |-> 0] }
    \cup { [wellformed |-> TRUE, oid |-> i] : i \in 1..(Len(SeedCatalogue) + 1) }

\* movies.find_one({"_id": oid})
find_one(oid) ==
    IF \E k \in 1..Len(movies) : movies[k].id = oid
    THEN Some(movies[CHOOSE k \in 1..Len(movies) : movies[k].id = oid])
    ELSE None

Traced(l, event) == [l EXCEPT !.trace = Append(l.trace, event)]

\* respond that redirects whether or not a link was generated
respond_always_redirects(t, l) ==
    IF l.kind = "download" THEN Return(t, l, 302) ELSE Return(t, l, 200)

\* the response built from the generated link
respond(t, l) ==
    IF l.kind = "download"
    THEN IF l.link # None THEN Return(t, l, 302) ELSE Return(t, l, 500)
    ELSE Return(t, l, 200)

\* download_file / stream_page up to the call of generate_fresh_link_async
link_request(t, kind, movie_id) ==
    /\ Begin(t, MaxResolves)
    /\ LET l == [Blank EXCEPT !.kind = kind, !.movie_id = movie_id.oid]
       IN  IF ~movie_id.wellformed THEN Raise(t, l)
           ELSE LET movie == find_one(movie_id.oid)
                IN  IF movie = None \/ The(movie).telegram_ref = None
                    THEN Return(t, l, 404)
                    ELSE Goto(t, [l EXCEPT !.ref = The(movie).telegram_ref], "gl_check")
    /\ UNCHANGED <<store, pyro>>

download_file(t, movie_id) == link_request(t, "download", movie_id)

stream_page(t, movie_id) == link_request(t, "stream", movie_id)

\* if not pyro_bot.is_initialized
gl_check(t) ==
    /\ pc[t] = "gl_check"
    /\ IF ~is_initialized THEN Goto(t, loc[t], "gl_start") ELSE Goto(t, loc[t], "gl_primary")
    /\ UNCHANGED <<store, pyro, nreq>>

\* await pyro_bot.start(), outside the try block
gl_start(t, ok) ==
    /\ pc[t] = "gl_start"
    /\ startCalls' = startCalls + 1
    /\ IF ok
       THEN /\ is_initialized' = TRUE
            /\ Goto(t, Traced(loc[t], "start_ok"), "gl_primary")
       ELSE /\ is_initialized' = is_initialized
            /\ Raise(t, Traced(loc[t], "start_failed"))
    /\ UNCHANGED <<store, scratch, nextCopy, nreq>>

\* gl_primary without the except branch: a failure of the primary gives up at once
gl_primary_gives_up(t, ok) ==
    /\ pc[t] = "gl_primary"
    /\ IF ok
       THEN respond(t, [Traced(loc[t], "primary_ok") EXCEPT !.link = Some("url")])
       ELSE respond(t, Traced(loc[t], "primary_failed"))
    /\ UNCHANGED <<store, pyro, nreq>>

\* gl_primary that also saves the fresh link in the catalogue item
gl_primary_caching(t, ok) ==
    /\ pc[t] = "gl_primary"
    /\ IF ok
       THEN /\ respond(t, [Traced(loc[t], "primary_ok") EXCEPT !.link = Some("url")])
            /\ movies' = [k \in 1..Len(movies) |->
                            IF movies[k].id = loc[t].movie_id
                            THEN [movies[k] EXCEPT !.manual_links =
                                      Some(<< [name |-> "fresh", url |-> "url"] >>)]
                            ELSE movies[k]]
       ELSE /\ Goto(t, Traced(loc[t], "primary_failed"), "gl_forward")
            /\ movies' = movies
    /\ UNCHANGED <<categories, requests_collection, settings, last_oid, pyro, nreq>>

\* link = await pyro_bot.get_download_link(chat_id, msg_id)
gl_primary(t, ok) ==
    /\ pc[t] = "gl_primary"
    /\ IF ok
       THEN respond(t, [Traced(loc[t], "primary_ok") EXCEPT !.link = Some("url")])
       ELSE Goto(t, Traced(loc[t], "primary_failed"), "gl_forward")
    /\ UNCHANGED <<store, pyro, nreq>>

\* forwarded_message = await pyro_bot.forward_messages(chat_id="me", ...)
gl_forward(t, ok) ==
    /\ pc[t] = "gl_forward"
    /\ IF ok
       THEN /\ scratch' = scratch \cup {nextCopy}
            /\ nextCopy' = nextCopy + 1
            /\ Goto(t, [Traced(loc[t], "forward_ok") EXCEPT !.copy = Some(nextCopy)],
                    "gl_download")
       ELSE /\ UNCHANGED <<scratch, nextCopy>>
            /\ respond(t, Traced(loc[t], "forward_failed"))
    /\ UNCHANGED <<store, is_initialized, startCalls, nreq>>

\* link = await forwarded_message.download(in_memory=True)
gl_download(t, ok) ==
    /\ pc[t] = "gl_download"
    /\ IF ok
       THEN Goto(t, [Traced(loc[t], "download_ok") EXCEPT !.link = Some("buffer")], "gl_delete")
       ELSE respond(t, Traced(loc[t], "download_failed"))
    /\ UNCHANGED <<store, pyro, nreq>>

\* await forwarded_message.delete(); return link
gl_delete(t, ok) ==
    /\ pc[t] = "gl_delete"
    /\ IF ok
       THEN /\ scratch' = scratch \ loc[t].copy
            /\ respond(t, Traced(loc[t], "delete_ok"))
       ELSE /\ scratch' = scratch
            /\ respond(t, [Traced(loc[t], "delete_failed") EXCEPT !.link = None])
    /\ UNCHANGED <<store, is_initialized, startCalls, nextCopy, nreq>>

generate_fresh_link_async(t) ==
    \/ gl_check(t)
    \/ \E ok \in BOOLEAN : gl_start(t, ok)
    \/ \E ok \in BOOLEAN : gl_primary(t, ok)
    \/ \E ok \in BOOLEAN : gl_forward(t, ok)
    \/ \E ok \in BOOLEAN : gl_download(t, ok)
    \/ \E ok \in BOOLEAN : gl_delete(t, ok)

Download(t) == \E movie_id \in PathIds : download_file(t, movie_id)

Stream(t) == \E movie_id \in PathIds : stream_page(t, movie_id)

(* ------------------------- parse_filename alone ------------------------ *)

\* the thread of the specifications that follow one caller
Worker == CHOOSE t \in Threads : TRUE

\* filenames: a name, an optional space, a group that is or is not a year in
\* parentheses, and a tail
NameChars == {"a", ".", "_", " "}

Names == UNION { [1..n -> NameChars] : n \in 0..MaxNameLen }

Gaps == { <<>>, <<" ">> }

Groups ==
    { <<"(", "1", "9", "9", "9", ")">>, <<"(", "2", "0", "1", "0", ")">>,
      <<"(", "1", "9", "9", ")">>, <<"(", "1", "9", "9", "9", "9", ")">>,
      <<"1", "9", "9", "9">>, <<"(", "1", "9", "a", "9", ")">>,
      <<"(", "1", "9", "9", "9">> }

Tails ==
    { <<>>, <<".", "m">>, <<"(", "2", "0", "1", "0", ")">>, <<" ", "x">> }

ParseInputs ==
    { n \o g \o y \o e : n \in Names, g \in Gaps, y \in Groups, e \in Tails }
    \cup { FN_Matrix }

\* a post of the source channel whose video has the filename f
PostOf(f) == [channel_post |-> Some(Message(TARGET_CHANNEL_ID, 1, Video(f)))]

InitParse ==
    \E f \in ParseInputs :
        StartWith(<<>>, [t \in Threads |->
                            IF t = Worker THEN [Blank EXCEPT !.update = Some(PostOf(f))]
                            ELSE Blank])

\* title, year = parse_filename(file.file_name)
parse_call(t) ==
    /\ pc[t] = "idle"
    /\ loc[t].kind = "none"
    /\ loc[t].update # None
    /\ Goto(t, [loc[t] EXCEPT !.kind = "parse",
                              !.parsed = parse_filename(FileName(The(loc[t].update)))],
            "idle")
    /\ UNCHANGED <<store, pyro, nreq>>

(* ------------------------ search_tmdb_for_bot alone -------------------- *)

\* a search result of each media type
ResultKinds ==
    { [media_type |-> "movie", id |-> 1],
      [media_type |-> "tv", id |-> 2],
      [media_type |-> "person", id |-> 3] }

\* response.json().get('results', []): every list of up to MaxResults results
ResultLists == UNION { [1..n -> ResultKinds] : n \in 0..MaxResults }

LookupEnvs == [search_ok : BOOLEAN, results : ResultLists, detail : DetailOutcomes]

InitLookup ==
    \E env \in LookupEnvs :
        StartWith(<<>>, [t \in Threads |->
                            IF t = Worker THEN [Blank EXCEPT !.tmdb = Some(env)]
                            ELSE Blank])

\* tmdb_details = search_tmdb_for_bot(title, year)
lookup_call(t) ==
    /\ pc[t] = "idle"
    /\ loc[t].kind = "none"
    /\ loc[t].tmdb # None
    /\ Goto(t, [loc[t] EXCEPT !.kind = "lookup",
                              !.details = search_tmdb_for_bot(The(loc[t].tmdb)),
                              !.lookups = @ + 1],
            "idle")
    /\ UNCHANGED <<store, pyro, nreq>>

(* ----------------------------- listings ------------------------------- *)

\* the query filters of /movies, /series and /category
Filters ==
    { [field |-> "none", value |-> ""],
      [field |-> "type", value |-> "movie"],
      [field |-> "type", value |-> "series"],
      [field |-> "categories", value |-> "Hindi"] }

\* a document matches a query filter
Satisfies(m, q) ==
    \/ q.field = "none"
    \/ q.field = "type" /\ m.type = q.value
    \/ q.field = "categories" /\ q.value \in m.categories

\* movies.find(query_filter), in the order of the collection
RECURSIVE find(_, _)
find(docs, q) ==
    IF docs = <<>> THEN <<>>
    ELSE IF Satisfies(Head(docs), q) THEN <<Head(docs)>> \o find(Tail(docs), q)
    ELSE find(Tail(docs), q)

\* the sort in ascending order of _id
sort_asc(docs) ==
    [k \in 1..Len(docs) |->
        docs[CHOOSE i \in 1..Len(docs) :
                 Cardinality({h \in 1..Len(docs) : docs[h].id < docs[i].id}) = k - 1]]

\* .sort('_id', -1): the document with k - 1 larger identifiers comes k-th
sort_desc(docs) ==
    [k \in 1..Len(docs) |->
        docs[CHOOSE i \in 1..Len(docs) :
                 Cardinality({h \in 1..Len(docs) : docs[h].id > docs[i].id}) = k - 1]]

skip(docs, n) == SubSeq(docs, n + 1, Len(docs))

limit(docs, n) == SubSeq(docs, 1, IF Len(docs) < n THEN Len(docs) ELSE n)

\* math.ceil(total_count / per_page)
total_pages(total_count, per_page) ==
    IF total_count % per_page = 0 THEN total_count \div per_page
    ELSE total_count \div per_page + 1

\* get_paginated_content with the skip one page too far
get_paginated_content_skips_page(query_filter, page) ==
    [ content_list |->
          limit(skip(sort_desc(find(movies, query_filter)), page * ITEMS_PER_PAGE),
                ITEMS_PER_PAGE),
      page |-> page,
      total_count |-> Len(find(movies, query_filter)) ]

\* get_paginated_content: the page and the Pagination(page, ITEMS_PER_PAGE, total_count)
get_paginated_content(query_filter, page) ==
    [ content_list |->
          limit(skip(sort_desc(find(movies, query_filter)), (page - 1) * ITEMS_PER_PAGE),
                ITEMS_PER_PAGE),
      page |-> page,
      total_count |-> Len(find(movies, query_filter)) ]

Ids(docs) == [k \in 1..Len(docs) |-> docs[k].id]

\* all_movies / all_series / movies_by_category for one page of a listing
listing(t, query_filter, page) ==
    /\ boot = "serving"
    /\ pc[t] = "idle"
    /\ LET got == get_paginated_content(query_filter, page)
           l == IF page = 1 THEN [Blank EXCEPT !.kind = "list"] ELSE loc[t]
       IN  Return(t, [l EXCEPT !.query = Some(query_filter),
                               !.page = page,
                               !.pages = Append(l.pages, Ids(got.content_list)),
                               !.counts = Append(l.counts, got.total_count),
                               !.total_pages = total_pages(got.total_count, ITEMS_PER_PAGE)],
                  200)
    /\ UNCHANGED <<store, pyro, nreq>>

\* a visitor opens a listing at its first page
open_listing(t) ==
    /\ loc[t].kind = "none"
    /\ \E q \in Filters : listing(t, q, 1)

\* pagination.has_next: the visitor follows the link to pagination.next_num
next_page(t) ==
    /\ loc[t].kind = "list"
    /\ loc[t].page < loc[t].total_pages
    /\ listing(t, The(loc[t].query), loc[t].page + 1)

\* a catalogue of n items of earlier runs: ingested movies and series, every
\* third item a manual entry of the category Hindi
Catalogue(n) ==
    [ k \in 1..n |->
        [ id |-> k, title |-> Some("Inception"),
          type |-> IF k % 2 = 1 THEN "movie" ELSE "series",
          telegram_ref |-> IF k % 3 = 0 THEN None
                           ELSE Some([chat_id |-> TARGET_CHANNEL_ID, message_id |-> k]),
          manual_links |-> IF k % 3 = 0 THEN Some(<<>>) ELSE None,
          categories |-> IF k % 3 = 0 THEN {"Hindi"} ELSE {} ] ]

InitPage == \E n \in 0..MaxItems : Start(Catalogue(n))

(* ----------------------- detail page and admin ------------------------ *)

\* movie_detail without the try block: a malformed id leaves the handler
movie_detail_unguarded(t, movie_id) ==
    /\ Begin(t, MaxOps)
    /\ LET l == [Blank EXCEPT !.kind = "detail", !.movie_id = movie_id.oid]
       IN  IF ~movie_id.wellformed THEN Raise(t, l)
           ELSE IF find_one(movie_id.oid) = None THEN Return(t, l, 404)
           ELSE Return(t, l, 200)
    /\ UNCHANGED <<store, pyro>>

\* movie_detail: ObjectId(movie_id) raises inside the try, the bare except
\* answers 404 like a missing document
movie_detail(t, movie_id) ==
    /\ Begin(t, MaxOps)
    /\ LET l == [Blank EXCEPT !.kind = "detail", !.movie_id = movie_id.oid]
       IN  IF ~movie_id.wellformed THEN Return(t, l, 404)
           ELSE IF find_one(movie_id.oid) = None THEN Return(t, l, 404)
           ELSE Return(t, l, 200)
    /\ UNCHANGED <<store, pyro>>

Detail(t) == \E movie_id \in PathIds : movie_detail(t, movie_id)

\* request_content: the public request form
request_content(t, method, content_name) ==
    /\ Begin(t, MaxOps)
    /\ LET l == [Blank EXCEPT !.kind = "request", !.method = method,
                                 !.name = content_name]
       IN  IF method = "GET"
           THEN Return(t, l, 200) /\ UNCHANGED <<requests_collection, last_oid>>
           ELSE /\ Return(t, l, 302)
                /\ IF Truthy(content_name)
                   THEN /\ requests_collection' =
                              Append(requests_collection,
                                     [id |-> NextId,
                                      name |-> join(strip(The(content_name))),
                                      status |-> "Pending"])
                        /\ last_oid' = NextId
                   ELSE UNCHANGED <<requests_collection, last_oid>>
    /\ UNCHANGED <<movies, categories, settings, pyro>>

Request(t) ==
    \E method \in {"GET", "POST"},
       content_name \in {None, Some(<<>>), Some(<<"D", "u", "n", "e", " ">>)} :
        request_content(t, method, content_name)

ADMIN_USERNAME == "admin"

ADMIN_PASSWORD == "password"

\* request.authorization: no header, or the username and password of the header
Authorizations ==
    { None }
    \cup { Some([username |-> u, password |-> p]) :
             u \in {"admin", "guest"}, p \in {"password", "guess"} }

\* the credentials of the administrator
AdminAuth == Some([username |-> ADMIN_USERNAME, password |-> ADMIN_PASSWORD])

\* check_auth that compares the username only
check_auth_username_only(username, password) == username = ADMIN_USERNAME

check_auth(username, password) ==
    username = ADMIN_USERNAME /\ password = ADMIN_PASSWORD

\* authenticate(): the 401 response with the challenge
authenticate(t, l) ==
    Return(t, [l EXCEPT !.headers = {"WWW-Authenticate"}], 401)

\* decorated(): the handler f runs only behind check_auth
requires_auth(t, l, f) ==
    IF l.auth = None \/ ~check_auth(The(l.auth).username, The(l.auth).password)
    THEN authenticate(t, l) /\ UNCHANGED <<store, pyro>>
    ELSE f

\* the locals of a request to an admin endpoint
admin_request(endpoint, auth) ==
    [Blank EXCEPT !.kind = "admin", !.endpoint = endpoint, !.auth = auth]

\* the handler has been entered
called(l) == [l EXCEPT !.ran = TRUE]

\* set_webhook: 200 when Telegram accepts; the except branch answers 500; a
\* refusal returns a status that is no status, which Flask rejects
set_webhook(t, l, outcome) ==
    /\ IF outcome = "set" THEN Return(t, l, 200)
       ELSE IF outcome = "raised" THEN Return(t, l, 500)
       ELSE Raise(t, l)
    /\ UNCHANGED <<store, pyro>>

\* admin, GET, and POST with a form_action that no branch handles
admin_page(t, l, method) ==
    /\ IF method = "GET" THEN Return(t, l, 200) ELSE Return(t, l, 302)
    /\ UNCHANGED <<store, pyro>>

\* admin, form_action == "update_ads"
update_ads(t, l, ad_data) ==
    /\ settings' = Some(ad_data)
    /\ Return(t, l, 302)
    /\ UNCHANGED <<movies, categories, requests_collection, last_oid, pyro>>

\* the names of the documents of a collection
NamesOf(docs) == {docs[k].name : k \in 1..Len(docs)}

\* admin, form_action == "add_category": the upsert by name finds a document
\* and sets the name it has, or goes on to insert one
add_category(t, l, category_name) ==
    /\ LET r == [l EXCEPT !.form_action = "add_category", !.name = category_name]
       IN  IF ~Truthy(category_name) THEN Return(t, r, 302)
           ELSE IF join(strip(The(category_name))) \in NamesOf(categories)
           THEN Return(t, r, 302)
           ELSE Goto(t, r, "ac_insert")
    /\ UNCHANGED <<store, pyro>>

\* the insert of the upsert on a collection without the unique index
ac_insert_no_index(t, retried) ==
    /\ pc[t] = "ac_insert"
    /\ categories' = Append(categories,
                            [id |-> NextId, name |-> join(strip(The(loc[t].name)))])
    /\ last_oid' = NextId
    /\ Return(t, loc[t], 302)
    /\ UNCHANGED <<movies, requests_collection, settings, pyro, nreq>>

\* the insert of the upsert: when another upsert has inserted the name
\* meanwhile, the unique index refuses the document, and the server either
\* retries the upsert as an update or reports the duplicate key
ac_insert(t, retried) ==
    /\ pc[t] = "ac_insert"
    /\ IF join(strip(The(loc[t].name))) \in NamesOf(categories)
       THEN /\ IF retried THEN Return(t, loc[t], 302) ELSE Raise(t, loc[t])
            /\ UNCHANGED <<categories, last_oid>>
       ELSE /\ categories' = Append(categories,
                                    [id |-> NextId, name |-> join(strip(The(loc[t].name)))])
            /\ last_oid' = NextId
            /\ Return(t, loc[t], 302)
    /\ UNCHANGED <<movies, requests_collection, settings, pyro, nreq>>

\* delete_many / delete_one: the documents whose id is not in ids
RECURSIVE without(_, _)
without(docs, ids) ==
    IF docs = <<>> THEN <<>>
    ELSE IF Head(docs).id \in ids THEN without(Tail(docs), ids)
    ELSE <<Head(docs)>> \o without(Tail(docs), ids)

\* bulk_delete with delete_one in place of delete_many
bulk_delete_first_only(t, l, selected_ids) ==
    /\ LET r == [l EXCEPT !.form_action = "bulk_delete", !.selected_ids = selected_ids]
       IN  IF \E i \in selected_ids : ~i.wellformed
           THEN Raise(t, r) /\ movies' = movies
           ELSE /\ movies' = IF \E k \in 1..Len(movies) :
                                    movies[k].id \in {i.oid : i \in selected_ids}
                             THEN without(movies,
                                      {movies[CHOOSE k \in 1..Len(movies) :
                                           movies[k].id \in {i.oid : i \in selected_ids}].id})
                             ELSE movies
                /\ Return(t, r, 302)
    /\ UNCHANGED <<categories, requests_collection, settings, last_oid, pyro>>

\* admin, form_action == "bulk_delete"
bulk_delete(t, l, selected_ids) ==
    /\ LET r == [l EXCEPT !.form_action = "bulk_delete", !.selected_ids = selected_ids]
       IN  IF \E i \in selected_ids : ~i.wellformed
           THEN Raise(t, r) /\ movies' = movies
           ELSE /\ movies' = without(movies, {i.oid : i \in selected_ids})
                /\ Return(t, r, 302)
    /\ UNCHANGED <<categories, requests_collection, settings, last_oid, pyro>>

\* the text fields that add_content and edit_movie strip without a test
Complete(form) ==
    /\ form.title # None
    /\ form.poster # None
    /\ form.backdrop # None
    /\ form.overview # None

FullForm ==
    [ title |-> Some(<<"E", "d", "i", "t", "e", "d", " ">>), poster |-> Some("p"), backdrop |-> Some("b"),
      overview |-> Some("o"), content_type |-> "movie", categories |-> {"English"},
      manual_links |-> << [name |-> "720p", url |-> "v"] >> ]

\* the forms a browser may post: the full form and forms with a field missing
Forms ==
    { FullForm,
      [FullForm EXCEPT !.manual_links = <<>>, !.content_type = "series"],
      [FullForm EXCEPT !.title = None],
      [FullForm EXCEPT !.title = Some(<<>>)],
      [FullForm EXCEPT !.overview = None] }

\* admin, form_action == "add_content": .strip() of a missing field raises
add_content(t, l, form) ==
    /\ LET r == [l EXCEPT !.form_action = "add_content", !.form = Some(form)]
       IN  IF ~Complete(form)
           THEN Raise(t, r) /\ UNCHANGED <<movies, last_oid>>
           ELSE /\ movies' = Append(movies,
                       [ id |-> NextId, title |-> Some(join(strip(The(form.title)))),
                         type |-> form.content_type,
                         telegram_ref |-> None, manual_links |-> Some(form.manual_links),
                         categories |-> form.categories ])
                /\ last_oid' = NextId
                /\ Return(t, r, 302)
    /\ UNCHANGED <<categories, requests_collection, settings, pyro>>

\* update_data that carries manual_links whatever the document holds
update_data_always_links(movie_obj, form) ==
    [ title |-> Some(join(strip(The(form.title)))), categories |-> form.categories,
      manual_links |-> Some(form.manual_links) ]

\* update_data of edit_movie; manual_links is None when the key is not set
update_data(movie_obj, form) ==
    [ title |-> Some(join(strip(The(form.title)))), categories |-> form.categories,
      manual_links |-> IF movie_obj.manual_links # None THEN Some(form.manual_links)
                       ELSE None ]

\* update_one that replaces the document by the update
update_one_replacing(docs, oid, data) ==
    [ k \in 1..Len(docs) |->
        IF docs[k].id = oid
        THEN [docs[k] EXCEPT !.title = data.title, !.categories = data.categories,
                             !.manual_links = data.manual_links,
                             !.telegram_ref = None]
        ELSE docs[k] ]

\* movies.update_one({"_id": oid}, {"$set": data})
update_one(docs, oid, data) ==
    [ k \in 1..Len(docs) |->
        IF docs[k].id = oid
        THEN [docs[k] EXCEPT !.title = data.title, !.categories = data.categories,
                             !.manual_links = IF data.manual_links # None
                                              THEN data.manual_links ELSE @]
        ELSE docs[k] ]

\* edit_movie up to the call of update_one
edit_movie(t, l, movie_id, method, form) ==
    /\ IF ~movie_id.wellformed THEN Raise(t, l)
       ELSE LET movie_obj == find_one(movie_id.oid)
            IN  IF movie_obj = None THEN Return(t, l, 404)
                ELSE IF method = "GET" THEN Return(t, l, 200)
                ELSE IF ~Complete(form) THEN Raise(t, l)
                ELSE Goto(t, [l EXCEPT !.movie_id = movie_id.oid,
                                       !.update_data =
                                           Some(update_data(The(movie_obj), form))],
                          "em_update")
    /\ UNCHANGED <<store, pyro>>

\* edit_movie: update_one and the redirect
em_update(t) ==
    /\ pc[t] = "em_update"
    /\ movies' = update_one(movies, loc[t].movie_id, The(loc[t].update_data))
    /\ Return(t, loc[t], 302)
    /\ UNCHANGED <<categories, requests_collection, settings, last_oid, pyro, nreq>>

delete_movie(t, l, movie_id) ==
    /\ IF ~movie_id.wellformed
       THEN Raise(t, l) /\ movies' = movies
       ELSE movies' = without(movies, {movie_id.oid}) /\ Return(t, l, 302)
    /\ UNCHANGED <<categories, requests_collection, settings, last_oid, pyro>>

\* the <cat_id> of a URL: the id of the default category Hindi, the ids the
\* next documents get, or any other string
CategoryIds ==
    { [wellformed |-> FALSE, oid |-> 0] }
    \cup { [wellformed |-> TRUE, oid |-> i] :
              i \in {DefaultCategories[3].id}
                    \cup (Len(SeedCatalogue) + 1)..(Len(SeedCatalogue) + 2) }

\* delete_category that also takes the name off the items tagged with it
delete_category_cascading(t, l, cat_id) ==
    /\ LET r == [l EXCEPT !.movie_id = cat_id.oid]
           gone == NamesOf(categories) \ NamesOf(without(categories, {cat_id.oid}))
       IN  IF ~cat_id.wellformed
           THEN Raise(t, r) /\ UNCHANGED <<categories, movies>>
           ELSE /\ categories' = without(categories, {cat_id.oid})
                /\ movies' = [k \in 1..Len(movies) |->
                                 [movies[k] EXCEPT !.categories = @ \ gone]]
                /\ Return(t, r, 302)
    /\ UNCHANGED <<requests_collection, settings, last_oid, pyro>>

delete_category(t, l, cat_id) ==
    /\ LET r == [l EXCEPT !.movie_id = cat_id.oid]
       IN  IF ~cat_id.wellformed
           THEN Raise(t, r) /\ categories' = categories
           ELSE categories' = without(categories, {cat_id.oid}) /\ Return(t, r, 302)
    /\ UNCHANGED <<movies, requests_collection, settings, last_oid, pyro>>

\* update_request_status without the test of the status value
update_request_status_any(t, l, req_id, status) ==
    /\ LET r == [l EXCEPT !.movie_id = req_id.oid, !.arg = status]
       IN  IF ~req_id.wellformed
           THEN Raise(t, r) /\ requests_collection' = requests_collection
           ELSE /\ requests_collection' =
                       [ k \in 1..Len(requests_collection) |->
                           IF requests_collection[k].id = req_id.oid
                           THEN [requests_collection[k] EXCEPT !.status = status]
                           ELSE requests_collection[k] ]
                /\ Return(t, r, 302)
    /\ UNCHANGED <<movies, categories, settings, last_oid, pyro>>

update_request_status(t, l, req_id, status) ==
    /\ LET r == [l EXCEPT !.movie_id = req_id.oid, !.arg = status]
       IN  IF status \notin {"Fulfilled", "Rejected"}
           THEN Return(t, r, 302) /\ requests_collection' = requests_collection
           ELSE IF ~req_id.wellformed
           THEN Raise(t, r) /\ requests_collection' = requests_collection
           ELSE /\ requests_collection' =
                       [ k \in 1..Len(requests_collection) |->
                           IF requests_collection[k].id = req_id.oid
                           THEN [requests_collection[k] EXCEPT !.status = status]
                           ELSE requests_collection[k] ]
                /\ Return(t, r, 302)
    /\ UNCHANGED <<movies, categories, settings, last_oid, pyro>>

delete_request(t, l, req_id) ==
    /\ IF ~req_id.wellformed
       THEN Raise(t, l) /\ requests_collection' = requests_collection
       ELSE /\ requests_collection' = without(requests_collection, {req_id.oid})
            /\ Return(t, l, 302)
    /\ UNCHANGED <<movies, categories, settings, last_oid, pyro>>

\* api_search_tmdb: the TMDB request is not guarded
api_search_tmdb(t, l, ok) ==
    /\ IF ok THEN Return(t, l, 200) ELSE Raise(t, l)
    /\ UNCHANGED <<store, pyro>>

\* api_get_details: get_tmdb_details answers None on any failure
api_get_details(t, l, found) ==
    /\ IF found THEN Return(t, l, 200) ELSE Return(t, l, 404)
    /\ UNCHANGED <<store, pyro>>

\* the operations of the admin panel that write the catalogue
curate(t, auth, forms) ==
    \/ \E form \in forms :
         LET l == admin_request("admin", auth)
         IN  requires_auth(t, l, add_content(t, called(l), form))
    \/ \E selected_ids \in SUBSET PathIds :
         LET l == admin_request("admin", auth)
         IN  requires_auth(t, l, bulk_delete(t, called(l), selected_ids))
    \/ \E movie_id \in PathIds, method \in {"GET", "POST"}, form \in forms :
         LET l == admin_request("edit_movie", auth)
         IN  requires_auth(t, l, edit_movie(t, called(l), movie_id, method, form))
    \/ \E movie_id \in PathIds :
         LET l == admin_request("delete_movie", auth)
         IN  requires_auth(t, l, delete_movie(t, called(l), movie_id))

\* the category_name field of the form: absent, empty, a new name, and the
\* name of a default category with spaces around it
CategoryNames ==
    { None, Some(<<>>), Some(<<"D", "r", "a", "m", "a">>),
      Some(<<" ", "H", "i", "n", "d", "i", " ">>) }

\* the operations of the admin panel on the categories
categorize(t, auth) ==
    \/ \E category_name \in CategoryNames :
         LET l == admin_request("admin", auth)
         IN  requires_auth(t, l, add_category(t, called(l), category_name))
    \/ \E cat_id \in CategoryIds :
         LET l == admin_request("admin/category/delete", auth)
         IN  requires_auth(t, l, delete_category(t, called(l), cat_id))

\* the other admin endpoints
manage(t, auth) ==
    \/ \E method \in {"GET", "POST"} :
         LET l == admin_request("admin", auth)
         IN  requires_auth(t, l, admin_page(t, called(l), method))
    \/ LET l == admin_request("admin", auth)
       IN  requires_auth(t, l, update_ads(t, called(l), "ad"))
    \/ categorize(t, auth)
    \/ \E req_id \in PathIds, status \in {"Fulfilled", "Rejected", "Pending", "Archived"} :
         LET l == admin_request("admin/request/update", auth)
         IN  requires_auth(t, l, update_request_status(t, called(l), req_id, status))
    \/ \E req_id \in PathIds :
         LET l == admin_request("admin/request/delete", auth)
         IN  requires_auth(t, l, delete_request(t, called(l), req_id))
    \/ \E ok \in BOOLEAN :
         LET l == admin_request("admin/api/search", auth)
         IN  requires_auth(t, l, api_search_tmdb(t, called(l), ok))
    \/ \E found \in BOOLEAN :
         LET l == admin_request("admin/api/details", auth)
         IN  requires_auth(t, l, api_get_details(t, called(l), found))
    \/ \E outcome \in {"set", "not_set", "raised"} :
         LET l == admin_request("set_webhook", auth)
         IN  requires_auth(t, l, set_webhook(t, called(l), outcome))

\* the administrator, logged in, works on the categories
Categorize(t) ==
    /\ Begin(t, MaxOps)
    /\ categorize(t, AdminAuth)

\* a request to an admin endpoint, with whatever Authorization header
Admin(t) ==
    /\ Begin(t, MaxOps)
    /\ \E auth \in Authorizations : curate(t, auth, Forms) \/ manage(t, auth)

\* the administrator, logged in, works on the catalogue
Curate(t) ==
    /\ Begin(t, MaxOps)
    /\ curate(t, AdminAuth, {f \in Forms : Truthy(f.title) /\ Complete(f)})

\* the thread that serves the administrator while a visitor browses
Administrator == CHOOSE t \in Threads : t # Worker

\* the administrator adds an item with a complete form
AddContent(t) ==
    /\ Begin(t, MaxOps)
    /\ \E form \in {f \in Forms : Truthy(f.title) /\ Complete(f)} :
         LET l == admin_request("admin", AdminAuth)
         IN  requires_auth(t, l, add_content(t, called(l), form))

\* the posts delivered while the administrator works
CataloguePosts ==
    { [channel_post |-> Some(Message(TARGET_CHANNEL_ID, 2, Video(f)))] :
        f \in {FN_Inception, FN_NoTitle} }

Post(t) == \E update \in CataloguePosts : webhook_handler(t, TRUE, update)

(* ------------------------------ startup ------------------------------- *)

\* missing_vars = [var for var in required_vars if not globals().get(var)]
missing_vars(e) == required_vars \ e.present

\* the module-level code: validation of the environment, TARGET_CHANNEL_ID,
\* the MongoDB connection and the default categories
startup ==
    /\ boot = "starting"
    /\ IF missing_vars(environ) # {} \/ ~environ.mongo_ok
       THEN /\ boot' = "exited"
            /\ categories' = categories
       ELSE /\ boot' = IF UniqueNames(categories) THEN "serving" ELSE "exited"
            /\ categories' = IF categories = <<>> THEN DefaultCategories ELSE categories
    /\ UNCHANGED <<movies, requests_collection, settings, last_oid, pyro, pc, loc, nreq, environ>>

\* the process is launched in some environment, over some database
InitStartup ==
    /\ environ \in Envs
    /\ boot = "starting"
    /\ movies \in {<<>>, SeedCatalogue}
    /\ categories \in {<<>>, SubSeq(DefaultCategories, 3, 3),
                         SubSeq(DefaultCategories, 3, 3) \o SubSeq(DefaultCategories, 3, 3)}
    /\ requests_collection = <<>>
    /\ settings = None
    /\ last_oid = Len(movies)
    /\ is_initialized = FALSE
    /\ startCalls = 0
    /\ scratch = {}
    /\ nextCopy = 1
    /\ pc = [t \in Threads |-> "idle"]
    /\ loc = [t \in Threads |-> Blank]
    /\ nreq = 0

(* --------------------------- specifications --------------------------- *)

NextIngest ==
    \E t \in Threads :
        \/ Webhook(t)
        \/ handle_new_post(t)

NextLink ==
    \E t \in Threads :
        \/ Download(t)
        \/ Stream(t)
        \/ generate_fresh_link_async(t)

\* the webhook deliveries of a fresh deployment
SpecIngest == Init /\ [][NextIngest]_vars

\* the link requests against an existing catalogue
SpecLink == InitSeeded /\ [][NextLink]_vars

NextParse == parse_call(Worker)

\* parse_filename applied to one filename
SpecParse == InitParse /\ [][NextParse]_vars

NextLookup == lookup_call(Worker)

\* search_tmdb_for_bot applied to one answer of TMDB
SpecLookup == InitLookup /\ [][NextLookup]_vars

NextPage ==
    \/ open_listing(Worker)
    \/ next_page(Worker)

\* one visitor reads a listing page by page, nothing is written meanwhile
SpecPage == InitPage /\ [][NextPage]_vars

NextAdmin ==
    \/ Admin(Worker)
    \/ em_update(Worker)
    \/ \E retried \in BOOLEAN : ac_insert(Worker, retried)
    \/ Detail(Worker)
    \/ Request(Worker)

\* the admin panel, the detail page and the request form over a catalogue
SpecAdmin == InitSeeded /\ [][NextAdmin]_vars

NextCategories ==
    \E t \in Threads :
        \/ Categorize(t)
        \/ \E retried \in BOOLEAN : ac_insert(t, retried)

\* two sessions of the administrator add and delete categories
SpecCategories == InitSeeded /\ [][NextCategories]_vars

NextCatalogue ==
    \/ Post(Worker)
    \/ handle_new_post(Worker)
    \/ Download(Worker)
    \/ Stream(Worker)
    \/ generate_fresh_link_async(Worker)
    \/ \E t \in Threads :
        \/ Curate(t)
        \/ em_update(t)

\* ingestion, the link endpoints and the administrator work on one
\* catalogue: posts and link requests are served by one thread, the
\* administrator's requests by any thread, also while a post or a link
\* request is being served
SpecCatalogue == InitSeeded /\ [][NextCatalogue]_vars

NextBrowse ==
    \/ open_listing(Worker)
    \/ next_page(Worker)
    \/ AddContent(Administrator)

\* a visitor reads a listing page by page while the administrator adds items
SpecBrowse == InitPage /\ [][NextBrowse]_vars

NextStartup == startup

\* the launch of the process
SpecStartup == InitStartup /\ [][NextStartup]_vars

Next == NextIngest \/ NextLink

Spec == Init /\ [][Next]_vars

(* ------------------------------ claims -------------------------------- *)

Has(l, event) == \E k \in 1..Len(l.trace) : l.trace[k] = event

\* generate_fresh_link_async was called for the request
Resolving(l) == l.kind \in {"stream", "download"} /\ l.ref # None

FallbackAttempted(l) == Has(l, "forward_ok") \/ Has(l, "forward_failed")

FallbackFailed(l) ==
    Has(l, "forward_failed") \/ Has(l, "download_failed") \/ Has(l, "delete_failed")

\* C1: the fallback (forward, download, delete) is attempted only after the
\* primary get_download_link raised, it is attempted whenever the primary
\* raised, and the resolver returns None only after the primary and the
\* fallback have both been attempted and have failed.
C1_FallbackIffPrimaryFailed ==
    \A t \in Threads :
        LET l == loc[t] IN
        Resolving(l) =>
            /\ FallbackAttempted(l) => Has(l, "primary_failed")
            /\ Has(l, "primary_failed") => (FallbackAttempted(l) \/ pc[t] = "gl_forward")
            /\ (pc[t] = "idle" /\ ~l.raised /\ l.link = None) =>
                   (Has(l, "primary_failed") /\ FallbackAttempted(l) /\ FallbackFailed(l))

\* a call whose primary and whose forward both failed has returned None
C1_Witness ==
    \E t \in Threads :
        /\ pc[t] = "idle" /\ Resolving(loc[t]) /\ ~loc[t].raised
        /\ loc[t].link = None
        /\ Has(loc[t], "primary_failed") /\ Has(loc[t], "forward_failed")

\* C2: no link resolution call propagates an exception: every request that
\* called generate_fresh_link_async is answered by its handler, never by an
\* uncaught fault.
C2_ResolutionNeverRaises ==
    \A t \in Threads : Resolving(loc[t]) => ~loc[t].raised

\* C3: the messaging client is started at most once: pyro_bot.start is never
\* called on a client that has already been started, a later call reuses it.
C3_StartAtMostOnce ==
    \A t \in Threads : pc[t] = "gl_start" => ~is_initialized

\* C4: when a resolution call has returned, the forwarded copy it created is
\* no longer in the scratch chat, whether its download succeeded or failed.
C4_CopyDeletedOnReturn ==
    \A t \in Threads :
        (pc[t] = "idle" /\ loc[t].copy # None) => loc[t].copy \cap scratch = {}

\* a step of a /stream or /download request of thread t
LinkStep(t) ==
    /\ pc'[t] # pc[t] \/ loc'[t] # loc[t]
    /\ loc'[t].kind \in {"stream", "download"}

\* C5: every step of a /stream or /download request, whatever the outcome of
\* the resolution, leaves the catalogue, the categories, the requests and the
\* settings as they are: the resolved link is never written to the store.
C5_ResolutionLeavesStore ==
    [][(\E t \in Threads : LinkStep(t)) => store' = store]_vars

\* a download answered from the primary link, one from the fallback buffer and
\* an unavailable one have all been served
C5_Witness ==
    /\ \E t \in Threads :
           /\ pc[t] = "idle" /\ loc[t].kind = "download"
           /\ loc[t].status = 302 /\ loc[t].link = Some("buffer")
    /\ \E t \in Threads :
           /\ pc[t] = "idle" /\ Resolving(loc[t])
           /\ loc[t].link = None /\ ~loc[t].raised
    /\ movies = SeedCatalogue

\* the record with identifier id is in the catalogue exactly once and is the
\* record of the post of l: kind and title of the lookup, the reference of the
\* post, no manual links
IsRecordOf(l, id) ==
    /\ Cardinality({k \in 1..Len(movies) : movies[k].id = id}) = 1
    /\ \A k \in 1..Len(movies) :
           movies[k].id = id =>
               /\ movies[k].title = The(l.details).title
               /\ movies[k].type = The(l.details).type
               /\ movies[k].telegram_ref =
                      { [chat_id |-> The(The(l.update).channel_post).chat_id,
                         message_id |-> The(The(l.update).channel_post).message_id] }
               /\ movies[k].manual_links = None

\* the handler of a post whose filename parsed and whose lookup found a record
\* has returned
Ingested(t) ==
    /\ pc[t] = "idle"
    /\ loc[t].kind = "webhook"
    /\ loc[t].details # None

\* C6 as stated: every accepted post whose filename parses and whose lookup
\* returns a record ends with exactly one new catalogue record of that post.
C6_OneRecordInserted ==
    \A t \in Threads :
        Ingested(t) => (loc[t].inserted # None /\ IsRecordOf(loc[t], The(loc[t].inserted)))

\* C6 amended: such a post makes exactly one insert, and when the store
\* accepts it the catalogue holds exactly one record with the new identifier,
\* with the kind and title of the lookup record, the (chat id, message id) of
\* the post as channel reference and no manual links.
C6_OneRecordIfStoreAccepts ==
    \A t \in Threads :
        Ingested(t) =>
            /\ loc[t].inserts = 1
            /\ loc[t].inserted # None => IsRecordOf(loc[t], The(loc[t].inserted))

C6_Witness ==
    \E t \in Threads :
        /\ Ingested(t)
        /\ loc[t].inserted # None
        /\ \E k \in 1..Len(movies) :
               /\ movies[k].id = The(loc[t].inserted)
               /\ movies[k].type = "movie"
               /\ movies[k].title = Some("Inception")

\* the attachment handle_new_post looks at
Attachment(m) == IF m.video # None THEN m.video ELSE m.document

\* the update is one that the claim says is ignored
Ignorable(u) ==
    \/ u.channel_post = None
    \/ The(u.channel_post).chat_id # TARGET_CHANNEL_ID
    \/ (The(u.channel_post).video = None /\ The(u.channel_post).document = None)
    \/ Attachment(The(u.channel_post)) # None
         /\ The(Attachment(The(u.channel_post))).file_name \in {None, Some(<<>>)}

\* C7: an update that is not a channel post, or is from another chat, or has
\* neither a video nor a document, or whose attachment has no filename is
\* ignored silently: no notification, no lookup, no insert, and the handler
\* has returned.
C7_IgnoredSilently ==
    \A t \in Threads :
        (loc[t].kind = "webhook" /\ loc[t].update # None /\ Ignorable(The(loc[t].update))) =>
            /\ pc[t] = "idle"
            /\ loc[t].sent = <<>>
            /\ loc[t].lookups = 0
            /\ loc[t].inserts = 0
            /\ loc[t].inserted = None

\* a post of another chat with a well-formed filename, and an unnamed video
\* in the source channel, have been ignored
C7_Witness ==
    /\ \E t \in Threads :
           /\ loc[t].kind = "webhook" /\ loc[t].update # None
           /\ The(loc[t].update).channel_post # None
           /\ The(The(loc[t].update).channel_post).chat_id # TARGET_CHANNEL_ID
           /\ The(The(loc[t].update).channel_post).video = Some(NamedFile(FN_Inception))
    /\ \E t \in Threads :
           /\ loc[t].kind = "webhook" /\ loc[t].update # None
           /\ The(loc[t].update).channel_post # None
           /\ The(The(loc[t].update).channel_post).chat_id = TARGET_CHANNEL_ID
           /\ The(The(loc[t].update).channel_post).video = Some(UnnamedFile)

\* the update is an accepted post whose filename gives no title
Unparsed(u) ==
    /\ ~Ignorable(u)
    /\ LET f == The(The(Attachment(The(u.channel_post))).file_name)
       IN  parse_filename(f).title \in {None, Some(<<>>)}

FormatError(u) ==
    [ chat_id |-> TARGET_CHANNEL_ID,
      reply_to_message_id |-> The(u.channel_post).message_id,
      kind |-> "format_error", post |-> None ]

\* C8: for an accepted post whose filename does not parse to a title, the
\* handler sends one format-error notification to the source channel as a
\* reply to the post and stops: no lookup, no insert, no second send.
C8_FormatErrorOnce ==
    \A t \in Threads :
        (loc[t].kind = "webhook" /\ loc[t].update # None /\ Unparsed(The(loc[t].update))) =>
            /\ pc[t] \in {"hp_format_error", "idle"}
            /\ pc[t] = "hp_format_error" => loc[t].sent = <<>>
            /\ pc[t] = "idle" => loc[t].sent = << FormatError(The(loc[t].update)) >>
            /\ loc[t].lookups = 0
            /\ loc[t].inserts = 0

\* a post whose filename has no year and one whose title is empty have both
\* been answered with the format error
C8_Witness ==
    /\ \E t \in Threads :
           /\ pc[t] = "idle" /\ loc[t].kind = "webhook" /\ loc[t].update # None
           /\ Unparsed(The(loc[t].update))
           /\ loc[t].parsed = NoMatch
           /\ Len(loc[t].sent) = 1
    /\ \E t \in Threads :
           /\ pc[t] = "idle" /\ loc[t].kind = "webhook" /\ loc[t].update # None
           /\ Unparsed(The(loc[t].update))
           /\ loc[t].parsed.title = Some(<<>>)
           /\ Len(loc[t].sent) = 1

NotFound(u) ==
    [ chat_id |-> TARGET_CHANNEL_ID,
      reply_to_message_id |-> The(u.channel_post).message_id,
      kind |-> "not_found", post |-> None ]

\* C9: when the lookup of an accepted, parsed post finds nothing, the handler
\* makes that one lookup, sends one not-found notification to the source
\* channel and stops without an insert; the thread is free for the next post
\* and the catalogue is as the other posts left it.
C9_NotFoundOnce ==
    \A t \in Threads :
        (loc[t].kind = "webhook" /\ loc[t].lookups > 0 /\ loc[t].details = None) =>
            /\ pc[t] \in {"hp_not_found", "idle"}
            /\ loc[t].lookups = 1
            /\ pc[t] = "hp_not_found" => loc[t].sent = <<>>
            /\ pc[t] = "idle" => loc[t].sent = << NotFound(The(loc[t].update)) >>
            /\ loc[t].inserts = 0
            /\ loc[t].inserted = None

\* one post has ended with the not-found notification and another post of the
\* same run has been inserted and confirmed
C9_Witness ==
    /\ \E t \in Threads :
           /\ pc[t] = "idle" /\ loc[t].kind = "webhook"
           /\ loc[t].lookups = 1 /\ loc[t].details = None
           /\ Len(loc[t].sent) = 1
    /\ \E t \in Threads :
           /\ Ingested(t) /\ loc[t].inserted # None /\ loc[t].status = 200
    /\ Len(movies) = 1

\* C10: after the insert exactly one notification is sent for the post: the
\* confirmation if and only if the insert succeeded, the database error if
\* and only if it failed.
C10_OneNotificationAfterInsert ==
    \A t \in Threads :
        (Ingested(t) /\ loc[t].inserts = 1) =>
            /\ Len(loc[t].sent) = 1
            /\ loc[t].sent[1].kind = "success" <=> loc[t].inserted # None
            /\ loc[t].sent[1].kind = "db_error" <=> loc[t].inserted = None

\* C11: the webhook endpoint answers every POST with 200 'ok', whatever
\* happens inside ingestion, also when the bot fails to send a notification.
C11_WebhookAlways200 ==
    \A t \in Threads :
        (pc[t] = "idle" /\ loc[t].kind = "webhook") => loc[t].status = 200

\* the configuration values the claim lists, as environment variables
ClaimedRequired ==
    {"MONGO_URI", "TMDB_API_KEY", "WEBSITE_URL", "BOT_TOKEN", "API_ID", "API_HASH",
     "PYROGRAM_SESSION"}

\* C18 as stated: the process never serves when the database connection
\* string, the API key, the site URL, the bot token, the source channel
\* identifier or a messaging-API credential is absent.
C18_FailsFastOnAnyMissing ==
    (ClaimedRequired \ environ.present # {} \/ environ.target = "absent") => boot # "serving"

\* C18 amended: once the module-level code has run, the process has exited
\* whenever one of the seven required variables is absent, and it serves only
\* with all seven set; TARGET_CHANNEL_ID is not among them.
C18_FailsFastOnRequired ==
    /\ (boot # "starting" /\ ClaimedRequired \ environ.present # {}) => boot = "exited"
    /\ boot = "serving" => environ.present = ClaimedRequired
    /\ boot = "exited" => pc = [t \in Threads |-> "idle"] /\ nreq = 0

\* the launch without WEBSITE_URL alone has exited, TARGET_CHANNEL_ID being set
C18_Witness ==
    /\ boot = "exited"
    /\ environ.present = ClaimedRequired \ {"WEBSITE_URL"}
    /\ environ.target = "valid"
    /\ environ.mongo_ok

\* the filename a parse_call was given
Input(t) == FileName(The(loc[t].update))

Parsed(t) == loc[t].kind = "parse"

\* the text is "(" four digits ")" at position j of f
GroupAt(f, j) ==
    /\ j >= 1 /\ j + 5 <= Len(f)
    /\ f[j] = "(" /\ f[j + 5] = ")"
    /\ \A k \in 1..4 : f[j + k] \in Digit

\* f is Name (YYYY) followed by any text, Name being its first n characters
\* (without a parenthesis) and the year group being at j
HasForm(f, n, j) ==
    /\ n \in 0..Len(f) /\ j \in (n + 1)..Len(f)
    /\ \A k \in 1..n : f[k] \notin {"(", ")"}
    /\ \A k \in (n + 1)..(j - 1) : f[k] = " "
    /\ GroupAt(f, j)

\* Name with every dot and underscore replaced by a space, then trimmed
Cleaned(name) ==
    LET spaced == [k \in 1..Len(name) |-> IF name[k] \in {".", "_"} THEN " " ELSE name[k]]
        first == {k \in 1..Len(spaced) : spaced[k] # " "}
    IN  IF first = {} THEN <<>>
        ELSE SubSeq(spaced, CHOOSE k \in first : \A h \in first : k <= h,
                            CHOOSE k \in first : \A h \in first : k >= h)

\* C12: for every filename of the form Name (YYYY) followed by any text,
\* parse_filename returns Name with every dot and underscore replaced by a
\* space and no leading or trailing whitespace, and YYYY.
C12_TitleIsCleanedName ==
    \A t \in Threads :
        Parsed(t) =>
            \A n \in 0..Len(Input(t)), j \in 1..Len(Input(t)) :
                HasForm(Input(t), n, j) =>
                    /\ loc[t].parsed.title = Some(Cleaned(SubSeq(Input(t), 1, n)))
                    /\ loc[t].parsed.year = Some(SubSeq(Input(t), j + 1, j + 4))

HasGroup(f) == \E j \in 1..Len(f) : GroupAt(f, j)

\* the position of the first parenthesised four-digit group of f
FirstGroup(f) == CHOOSE j \in 1..Len(f) : GroupAt(f, j) /\ \A h \in 1..(j - 1) : ~GroupAt(f, h)

\* C13: a filename without a parenthesised run of exactly four digits gives
\* (None, None); a returned year is the first parenthesised four-digit group
\* and the title is made of the text before that group only.
C13_NoMatchAndFirstGroup ==
    \A t \in Threads :
        Parsed(t) =>
            LET f == Input(t) IN
            /\ ~HasGroup(f) => loc[t].parsed = [title |-> None, year |-> None]
            /\ loc[t].parsed.year # None =>
                   /\ HasGroup(f)
                   /\ loc[t].parsed.year = Some(SubSeq(f, FirstGroup(f) + 1, FirstGroup(f) + 4))
                   /\ loc[t].parsed.title =
                          Some(replace(replace(strip(SubSeq(f, 1, FirstGroup(f) - 1)),
                                               ".", " "), "_", " "))

\* a filename with two year groups has been parsed to the first one, and one
\* whose only group has five digits has been parsed to no match
C13_Witness ==
    \E t \in Threads :
        /\ Parsed(t)
        /\ \E j \in 1..Len(Input(t)) : GroupAt(Input(t), j) /\ j > FirstGroup(Input(t))
        /\ loc[t].parsed.year = Some(<<"1", "9", "9", "9">>)
        /\ loc[t].parsed.title = Some(<<"a", " ", "a">>)

\* the identifiers of the items of the catalogue that the filter q selects
Selected(q) ==
    { movies[k].id : k \in { h \in 1..Len(movies) :
        \/ q.field = "none"
        \/ q.field = "type" /\ movies[h].type = q.value
        \/ q.field = "categories" /\ q.value \in movies[h].categories } }

RECURSIVE Concat(_)
Concat(ss) == IF ss = <<>> THEN <<>> ELSE Head(ss) \o Concat(Tail(ss))

\* C14: total_pages is the ceiling of (number of matching items / 20), no
\* page has more than 20 items, the pages read so far are in descending
\* insertion order without a repetition, and once the last page has been
\* read they hold every matching item.
C14_PagesCoverOnce ==
    \A t \in Threads :
        loc[t].kind = "list" =>
            LET n == Cardinality(Selected(The(loc[t].query)))
                read == Concat(loc[t].pages)
            IN  /\ loc[t].total_pages * 20 >= n
                /\ (loc[t].total_pages - 1) * 20 < n
                /\ \A k \in 1..Len(loc[t].pages) : Len(loc[t].pages[k]) <= 20
                /\ \A k \in 1..(Len(read) - 1) : read[k] > read[k + 1]
                /\ {read[k] : k \in 1..Len(read)} \subseteq Selected(The(loc[t].query))
                /\ loc[t].page >= loc[t].total_pages =>
                       {read[k] : k \in 1..Len(read)} = Selected(The(loc[t].query))

\* the three pages of a listing of 41 items have been read: 20, 20 and 1
C14_Witness ==
    \E t \in Threads :
        /\ loc[t].kind = "list"
        /\ loc[t].total_pages = 3 /\ loc[t].page = 3
        /\ Len(loc[t].pages[1]) = 20 /\ Len(loc[t].pages[2]) = 20 /\ Len(loc[t].pages[3]) = 1

\* the identifiers of the documents of a collection
IdsOf(docs) == {docs[k].id : k \in 1..Len(docs)}

\* the document of a collection with the identifier i
Item(docs, i) == docs[CHOOSE k \in 1..Len(docs) : docs[k].id = i]

\* C15: a request to /movie/<id> whose identifier matches no catalogue item
\* (a malformed identifier matches none) is answered with 404, without an
\* exception, and leaves the store as it was.
C15_MissingDetailIs404 ==
    [][\A t \in Threads :
          (/\ loc'[t] # loc[t]
           /\ loc'[t].kind = "detail"
           /\ loc'[t].movie_id \notin IdsOf(movies))
          => /\ pc'[t] = "idle"
             /\ loc'[t].status = 404
             /\ ~loc'[t].raised
             /\ store' = store]_vars

\* /movie/<id> with a malformed identifier has been answered with 404
C15_Witness ==
    \E t \in Threads :
        /\ loc[t].kind = "detail"
        /\ loc[t].movie_id = 0
        /\ loc[t].status = 404

\* the request carries no credentials, or credentials that are not the
\* configured username and password
Unauthenticated(l) ==
    \/ l.auth = None
    \/ \E a \in l.auth : a.username # "admin" \/ a.password # "password"

\* C16: a request to an admin endpoint without matching credentials is
\* answered 401 with a WWW-Authenticate header, its handler is not entered
\* and the store is not changed.
C16_AdminNeedsCredentials ==
    [][\A t \in Threads :
          (/\ loc'[t] # loc[t]
           /\ loc'[t].kind = "admin"
           /\ Unauthenticated(loc'[t]))
          => /\ pc'[t] = "idle"
             /\ loc'[t].status = 401
             /\ "WWW-Authenticate" \in loc'[t].headers
             /\ ~loc'[t].ran
             /\ store' = store]_vars

\* /delete_movie called with the right username and a wrong password was
\* refused, after the catalogue had been changed by the administrator
C16_Witness ==
    \E t \in Threads :
        /\ loc[t].kind = "admin"
        /\ loc[t].endpoint = "delete_movie"
        /\ loc[t].auth = Some([username |-> "admin", password |-> "guess"])
        /\ loc[t].status = 401
        /\ movies # SeedCatalogue

\* the item a link request names exists and has a channel reference
HasReference(l) ==
    \E k \in 1..Len(movies) :
        movies[k].id = l.movie_id /\ movies[k].telegram_ref # None

\* a served request to /download/<id> or /stream/<id>
LinkServed(t) == pc[t] = "idle" /\ loc[t].kind \in {"download", "stream"}

\* C17 as stated: for both endpoints an error status whenever the item or
\* its reference is missing or no link was resolved; success or redirect
\* only with a resolved link.
C17_ErrorUnlessResolved ==
    \A t \in Threads :
        LinkServed(t) =>
            /\ (~HasReference(loc[t]) \/ loc[t].link = None) => loc[t].status \in 400..599
            /\ loc[t].status \in 200..399 => loc[t].link # None

\* C17, amended: /download answers an error status without a link and
\* redirects only with one; /stream answers an error status when the item
\* or its reference is missing and otherwise, unless the resolution raised,
\* 200 with or without a link.
C17_StatusByEndpoint ==
    \A t \in Threads :
        LinkServed(t) =>
            /\ loc[t].status \in {200, 302, 404, 500}
            /\ ~HasReference(loc[t]) => loc[t].status \in 400..599
            /\ (loc[t].kind = "download" /\ loc[t].link = None) => loc[t].status \in 400..599
            /\ loc[t].status = 302 => (loc[t].kind = "download" /\ loc[t].link # None)
            /\ loc[t].status = 200 => (loc[t].kind = "stream" /\ HasReference(loc[t]))
            /\ (loc[t].kind = "stream" /\ HasReference(loc[t]) /\ ~loc[t].raised)
                   => loc[t].status = 200

\* /stream was answered 200 although primary and fallback both failed, and
\* /download was answered 500 for the same reason
C17_Witness ==
    /\ \E t \in Threads :
           /\ LinkServed(t) /\ loc[t].kind = "stream"
           /\ Has(loc[t], "primary_failed") /\ loc[t].link = None
           /\ loc[t].status = 200
    /\ \E t \in Threads :
           /\ LinkServed(t) /\ loc[t].kind = "download"
           /\ Has(loc[t], "primary_failed") /\ loc[t].link = None
           /\ loc[t].status = 500

\* C19: no catalogue item has both a channel reference and a manual links
\* field, and no step gives an item that stays in the catalogue the field
\* it was created without.
C19_SourceNeverMixed ==
    /\ [](\A k \in 1..Len(movies) :
             movies[k].telegram_ref = None \/ movies[k].manual_links = None)
    /\ [][\A i \in IdsOf(movies) \cap IdsOf(movies') :
             /\ Item(movies, i).telegram_ref = None => Item(movies', i).telegram_ref = None
             /\ Item(movies, i).manual_links = None => Item(movies', i).manual_links = None]_vars

\* an item ingested in this run and the manual item of the seed have both
\* been edited
C19_Witness ==
    /\ \E k \in 1..Len(movies) :
           /\ movies[k].id > Len(SeedCatalogue)
           /\ movies[k].telegram_ref # None
           /\ movies[k].title = Some("Edited")
    /\ \E k \in 1..Len(movies) :
           /\ movies[k].telegram_ref = None
           /\ movies[k].manual_links = Some(<<>>)
           /\ movies[k].title = Some("Edited")

\* C20: no step changes or removes the channel reference of an item that
\* stays in the catalogue.
C20_ReferenceImmutable ==
    [][\A i \in IdsOf(movies) \cap IdsOf(movies') :
          Item(movies, i).telegram_ref # None
              => Item(movies', i).telegram_ref = Item(movies, i).telegram_ref]_vars

\* an ingested item has been edited and a link has been resolved from its
\* reference
C20_Witness ==
    \E k \in 1..Len(movies), t \in Threads :
        /\ movies[k].telegram_ref # None
        /\ movies[k].title = Some("Edited")
        /\ loc[t].kind \in {"download", "stream"}
        /\ loc[t].movie_id = movies[k].id
        /\ loc[t].ref = movies[k].telegram_ref
        /\ loc[t].link # None

\* the kinds of the results before the first movie or tv result are all
\* other kinds, and that result has the kind m
FirstOfKind(results, m) ==
    \E k \in 1..Len(results) :
        /\ results[k].media_type = m
        /\ \A h \in 1..(k - 1) : results[h].media_type \notin {"movie", "tv"}

\* C21: search_tmdb_for_bot returns 'not found' exactly when the search
\* request fails, no result is a movie or tv result, or the details request
\* fails (raises or is answered with an error status); otherwise it returns
\* a record of kind 'series' when the first movie-or-tv result is tv and
\* 'movie' when it is movie.
C21_FirstQualifyingOrNotFound ==
    \A t \in Threads :
        loc[t].kind = "lookup" =>
            LET env == The(loc[t].tmdb)
                failed == \/ ~env.search_ok
                          \/ ~(FirstOfKind(env.results, "movie") \/ FirstOfKind(env.results, "tv"))
                          \/ env.detail # "ok"
            IN  /\ failed <=> loc[t].details = None
                /\ ~failed =>
                     /\ The(loc[t].details).type = "series" <=> FirstOfKind(env.results, "tv")
                     /\ The(loc[t].details).type = "movie" <=> FirstOfKind(env.results, "movie")

\* the request that a step of the admin panel has just begun
Began(t) == nreq' = nreq + 1 /\ loc'[t].kind = "admin" /\ loc'[t].ran

\* C22: a bulk delete with the selected identifiers S removes exactly the
\* catalogue items whose identifier is in S, keeps every other item as it
\* was and in its place, and leaves categories, requests and settings
\* unchanged; with an empty S the catalogue is unchanged.
C22_BulkDeleteExactlySelected ==
    [][\A t \in Threads :
          (/\ Began(t)
           /\ loc'[t].form_action = "bulk_delete"
           /\ \A i \in loc'[t].selected_ids : i.wellformed)
          => LET S == {i.oid : i \in loc'[t].selected_ids}
             IN  /\ IdsOf(movies') = IdsOf(movies) \ S
                 /\ \A i \in IdsOf(movies') : Item(movies', i) = Item(movies, i)
                 /\ \A h, k \in 1..Len(movies') :
                        h < k => \E a, b \in 1..Len(movies) :
                                     a < b /\ movies[a] = movies'[h] /\ movies[b] = movies'[k]
                 /\ Len(movies') = Cardinality(IdsOf(movies'))
                 /\ S = {} => movies' = movies
                 /\ <<categories, requests_collection, settings>>' =
                        <<categories, requests_collection, settings>>]_vars

\* a bulk delete of both seed items and of an identifier that names no item
\* has emptied the catalogue
C22_Witness ==
    \E t \in Threads :
        /\ loc[t].form_action = "bulk_delete"
        /\ loc[t].status = 302
        /\ {i.oid : i \in loc[t].selected_ids} = 1..(Len(SeedCatalogue) + 1)
        /\ movies = <<>>

\* C23: every request has the status Pending, Fulfilled or Rejected; a new
\* request is Pending; a request that is not Pending never becomes Pending
\* again; update_request_status with another status value changes nothing.
C23_RequestStatus ==
    /\ [](\A k \in 1..Len(requests_collection) :
             requests_collection[k].status \in {"Pending", "Fulfilled", "Rejected"})
    /\ [][/\ \A i \in IdsOf(requests_collection') \ IdsOf(requests_collection) :
                Item(requests_collection', i).status = "Pending"
          /\ \A i \in IdsOf(requests_collection') \cap IdsOf(requests_collection) :
                Item(requests_collection, i).status # "Pending"
                    => Item(requests_collection', i).status # "Pending"
          /\ \A t \in Threads :
                (/\ Began(t)
                 /\ loc'[t].endpoint = "admin/request/update"
                 /\ loc'[t].arg \notin {"Fulfilled", "Rejected"})
                => store' = store]_vars

\* a fulfilled request stayed fulfilled when its status was set to Pending
C23_Witness ==
    \E t \in Threads :
        /\ loc[t].endpoint = "admin/request/update"
        /\ loc[t].ran
        /\ loc[t].arg = "Pending"
        /\ \E k \in 1..Len(requests_collection) :
               /\ requests_collection[k].id = loc[t].movie_id
               /\ requests_collection[k].status = "Fulfilled"

\* the add-category request of thread t carries the name n
AddsName(l, n) ==
    /\ l.form_action = "add_category"
    /\ l.name = Some(n)

\* C24: no two category records have the same name, whatever add-category
\* and delete-category requests run, one after the other or at once, and a
\* step of an add-category request for a name that exists leaves the
\* categories as they are.
C24_CategoryNamesUnique ==
    /\ [](\A i, j \in 1..Len(categories) :
             categories[i].name = categories[j].name => i = j)
    /\ [][\A t \in Threads :
             (/\ loc'[t] # loc[t]
              /\ \/ AddsName(loc'[t], <<"D", "r", "a", "m", "a">>)
                    /\ \E k \in 1..Len(categories) : categories[k].name = "Drama"
                 \/ AddsName(loc'[t], <<" ", "H", "i", "n", "d", "i", " ">>)
                    /\ \E k \in 1..Len(categories) : categories[k].name = "Hindi")
             => categories' = categories]_vars

\* two add-category requests for Drama ran at once: one inserted the
\* record, the other was refused by the unique index
C24_Witness ==
    \E t, u \in Threads :
        /\ t # u
        /\ pc[t] = "idle" /\ pc[u] = "idle"
        /\ AddsName(loc[t], <<"D", "r", "a", "m", "a">>)
        /\ AddsName(loc[u], <<"D", "r", "a", "m", "a">>)
        /\ loc[t].status = 302
        /\ loc[u].raised
        /\ Cardinality({k \in 1..Len(categories) : categories[k].name = "Drama"}) = 1

\* a form of add_content with a required text field absent or empty
Incomplete(form) ==
    \/ form.title = None \/ form.title = Some(<<>>)
    \/ form.poster = None \/ form.backdrop = None \/ form.overview = None

\* C26: a content-request POST without a content name and an add-content
\* POST without a title, poster, backdrop or overview end in the redirect,
\* without an exception, and leave the store unchanged.
C26_MissingFieldRedirects ==
    [][\A t \in Threads :
          (/\ nreq' = nreq + 1
           /\ \/ /\ loc'[t].kind = "request"
                 /\ loc'[t].method = "POST"
                 /\ loc'[t].name \in {None, Some(<<>>)}
              \/ /\ Began(t)
                 /\ loc'[t].form_action = "add_content"
                 /\ \E form \in loc'[t].form : Incomplete(form))
          => /\ pc'[t] = "idle"
             /\ loc'[t].status = 302
             /\ ~loc'[t].raised
             /\ store' = store]_vars

\* C30: delete_category removes the category record with the given
\* identifier and no other, and leaves every catalogue item, with its
\* category tags, and every request and setting unchanged.
C30_DeleteCategoryKeepsTags ==
    [][\A t \in Threads :
          (/\ Began(t)
           /\ loc'[t].endpoint = "admin/category/delete"
           /\ loc'[t].status = 302)
          => /\ IdsOf(categories') = IdsOf(categories) \ {loc'[t].movie_id}
             /\ \A i \in IdsOf(categories') : Item(categories', i) = Item(categories, i)
             /\ Len(categories') = Cardinality(IdsOf(categories'))
             /\ <<movies, requests_collection, settings>>' =
                    <<movies, requests_collection, settings>>]_vars

\* the category Hindi has been deleted and an item still carries its tag
C30_Witness ==
    /\ \E t \in Threads :
           /\ loc[t].endpoint = "admin/category/delete"
           /\ loc[t].status = 302
           /\ loc[t].movie_id = DefaultCategories[3].id
    /\ \A k \in 1..Len(categories) : categories[k].name # "Hindi"
    /\ \E k \in 1..Len(movies) : "Hindi" \in movies[k].categories

\* the (chat id, message id) of the post a thread handles
PostRef(l) ==
    [ chat_id |-> The(The(l.update).channel_post).chat_id,
      message_id |-> The(The(l.update).channel_post).message_id ]

\* C25: ingestion does not deduplicate: an insert that the store accepts
\* appends a record of the post whatever the catalogue holds, and two posts
\* handled at once that parse to the same title and year and get the same
\* lookup record leave two records with that title and the message id of
\* their own post.
C25_NoDeduplication ==
    /\ [][\A t \in Threads :
             (pc[t] = "hp_insert" /\ pc'[t] = "hp_success")
             => /\ Len(movies') = Len(movies) + 1
                /\ SubSeq(movies', 1, Len(movies)) = movies
                /\ movies'[Len(movies')].title = The(loc[t].details).title
                /\ movies'[Len(movies')].telegram_ref = Some(PostRef(loc[t]))]_vars
    /\ [](\A t, u \in Threads :
             (/\ t # u
              /\ loc[t].kind = "webhook" /\ loc[u].kind = "webhook"
              /\ loc[t].inserted # None /\ loc[u].inserted # None
              /\ loc[t].parsed = loc[u].parsed
              /\ loc[t].details = loc[u].details)
             => \E h, k \in 1..Len(movies) :
                    /\ h # k
                    /\ movies[h].id = The(loc[t].inserted)
                    /\ movies[k].id = The(loc[u].inserted)
                    /\ movies[h].title = movies[k].title
                    /\ movies[h].telegram_ref = Some(PostRef(loc[t]))
                    /\ movies[k].telegram_ref = Some(PostRef(loc[u])))

\* two posts of the same film with different message ids are being handled
\* at once, and the catalogue holds a record for each
C25_Witness ==
    \E t, u \in Threads :
        /\ pc[t] = "hp_success" /\ pc[u] = "hp_success"
        /\ loc[t].parsed = loc[u].parsed
        /\ PostRef(loc[t]).message_id # PostRef(loc[u]).message_id
        /\ Len(movies) = 2
        /\ movies[1].title = Some("Inception") /\ movies[2].title = Some("Inception")
        /\ movies[1].telegram_ref # movies[2].telegram_ref

\* the number of events of a trace that are in the set es
Count(trace, es) == Cardinality({k \in 1..Len(trace) : trace[k] \in es})

\* C27 as stated, for a call that has ended: the primary method was
\* attempted exactly once and the fallback at most once.
C27_PrimaryOnceFallbackAtMostOnce ==
    \A t \in Threads :
        (pc[t] = "idle" /\ Resolving(loc[t])) =>
            /\ Count(loc[t].trace, {"primary_ok", "primary_failed"}) = 1
            /\ Count(loc[t].trace, {"forward_ok", "forward_failed"}) <= 1

\* C29 as stated: when the primary failed and the forward and the download
\* succeeded the call returns the downloaded content, and it returns
\* 'unavailable' only if the forward or the download failed.
C29_DownloadedContentReturned ==
    \A t \in Threads :
        (pc[t] = "idle" /\ Resolving(loc[t]) /\ ~loc[t].raised) =>
            /\ (Has(loc[t], "primary_failed") /\ Has(loc[t], "forward_ok")
                    /\ Has(loc[t], "download_ok")) => loc[t].link = Some("buffer")
            /\ loc[t].link = None =>
                   (Has(loc[t], "forward_failed") \/ Has(loc[t], "download_failed"))

\* C28: when j matching items (one, in the claim) were inserted between a
\* visitor's read of page k and of page k + 1 of the same filter, the last j
\* items of page k come again as the first j items of page k + 1: the pages
\* read contain a duplicate.
C28_InsertRepeatsLastItem ==
    \A t \in Threads :
        loc[t].kind = "list" =>
            \A k \in 1..(Len(loc[t].pages) - 1) :
                LET j == loc[t].counts[k + 1] - loc[t].counts[k]
                IN  (j >= 1 /\ j <= 20) =>
                        /\ Len(loc[t].pages[k]) = 20
                        /\ Len(loc[t].pages[k + 1]) >= j
                        /\ \A i \in 1..j :
                               loc[t].pages[k + 1][i] = loc[t].pages[k][20 - j + i]

\* one matching item was added between the reads of page 1 and page 2, and
\* page 2 begins with the last item of page 1
C28_Witness ==
    \E t \in Threads :
        /\ loc[t].kind = "list"
        /\ Len(loc[t].pages) = 2
        /\ loc[t].counts[2] = loc[t].counts[1] + 1
        /\ loc[t].pages[2][1] = loc[t].pages[1][20]

====
